---- MODULE Spec2Model ----
(***************************************************************************)
(* A model of the particle system of particles.js: ParticleSystem (spawn,  *)
(* drawNextFrame) and Particle2D (draw).                                   *)
(*                                                                         *)
(* The variant modelled is the one whose velocities are in pixels per      *)
(* second (x += velocityX * mass * m / 1000); the other variant differs    *)
(* only by that factor 1000 in the unit of velocity and of gravity.        *)
(*                                                                         *)
(* JavaScript Numbers are modelled in fixed point:                         *)
(*   fractions (alpha, burnRate, Math.pow results)  value * Scale          *)
(*   velocities (pixels per second)                 value * VScale         *)
(*   positions (pixels)                             value * PosScale       *)
(* PosScale = 1000 * VScale makes the integration of the position exact    *)
(* for whole masses; a product with a fraction is rounded toward zero.     *)
(*                                                                         *)
(* The clock (+new Date()) is read by drawNextFrame only; its readings     *)
(* never decrease.                                                         *)
(***************************************************************************)
EXTENDS Integers, Sequences, FiniteSets, TLC

Scale == 10000
VScale == 100
PosScale == 1000 * VScale

\* ---- configuration set by the constructor
UNIVERSE_GRAVITY == VScale \div 2
UNIVERSE_FRICTION == (2 * Scale) \div 100
PARTICLE_MASS_MIN == 30
PARTICLE_MASS_MAX == 60
PARTICLE_BURN_RATE == (97 * Scale) \div 100
PARTICLE_VELOCITY_X_MIN == -55
PARTICLE_VELOCITY_X_MAX == 55
PARTICLE_VELOCITY_Y_MIN == -180
PARTICLE_VELOCITY_Y_MAX == 0
FPS == 60

\* ---- the canvas handed to the constructor (the size of a default canvas)
CanvasWidth == 300
CanvasHeight == 150

\* ---- bounds of the model
MaxSpawned == 2      \* particles spawned in one behaviour
MaxFrames == 3       \* drawNextFrame calls in one behaviour of Spec
SpawnFrames == 2     \* LiveSpec: spawn is called before this many frames only
DecayFrames == 14    \* LiveSpec: drawNextFrame calls after the last spawn

\* Math.random() returns r / RandScale; the values of r tried for each of
\* the four draws of one iteration of spawn (velocityX, velocityY, mass, alpha)
RandScale == 10
Rand == {1, 9} \X {9} \X {5} \X {1, 9}
\* milliseconds the clock advances between two reads; multiples of 50 keep
\* the frame multiple m = elapsed * FPS / 1000 whole
Deltas == {0, 50}
\* the positive elapsed times of the two calls of SplitSpec
SplitDeltas == {50, 100}
\* the positive elapsed times of LiveSpec
LiveDeltas == {100}
StartTime == 1000
SpawnCounts == -1 .. MaxSpawned

VARIABLES
  x, y,              \* this.x, this.y: the spawn origin
  particles,         \* this.particles
  autoClear,         \* this.autoClear
  dirtyRegion,       \* this.dirtyRegion
  lastFrameTime,     \* this.lastFrameTime
  clock,             \* the last reading of the wall clock (+new Date())
  nextId,            \* ghost: identity of the next Particle2D object
  frames,            \* ghost: number of drawNextFrame calls so far
  call,              \* ghost: the last operation and its argument / multiple m
  drawn,             \* ghost: the fillRect calls of the last drawNextFrame
  cleared,           \* ghost: the arguments of the last clearRect, or <<>>
  twin,              \* SplitSpec: a second system given the same particles
  phase              \* SplitSpec: "both", "half" or "done"

vars == <<x, y, particles, autoClear, dirtyRegion, lastFrameTime, clock,
          nextId, frames, call, drawn, cleared, twin, phase>>

\* ---- arithmetic helpers

\* ~~v: the whole pixels of a position, truncated toward zero
Trunc(v) == IF v >= 0 THEN (v \div PosScale) * PosScale
                      ELSE -(((-v) \div PosScale) * PosScale)

\* v * f for a fraction f, rounded toward zero
Mul(v, f) == IF v >= 0 THEN (v * f) \div Scale ELSE -(((-v) * f) \div Scale)

\* Math.pow(b, m) for a fraction b >= 0 and a whole m >= 0
RECURSIVE Pow(_, _)
Pow(b, m) == IF m <= 0 THEN Scale ELSE (Pow(b, m - 1) * b) \div Scale

\* ---- Particle2D

\* Particle2D with the two coordinates taken in the wrong order
Particle2DSwapped(px, py) ==
  [x |-> py, y |-> px, velocityX |-> 0, velocityY |-> 0, mass |-> 0,
   alpha |-> 0, burnRate |-> 0]

Particle2D(px, py) ==
  [x |-> px, y |-> py, velocityX |-> 0, velocityY |-> 0, mass |-> 0,
   alpha |-> 0, burnRate |-> 0]

\* draw: one fillRect(x, y, size, size) at the truncated position, its
\* gradient starting at getColor(), of which the model keeps the alpha
Draw(p) ==
  [id |-> p.id, x |-> Trunc(p.x), y |-> Trunc(p.y), size |-> p.mass * PosScale,
   alpha |-> p.alpha]

\* ---- ParticleSystem.spawn

\* one iteration of the loop of spawn; r holds the four Math.random() results
NewParticle(ox, oy, r, id) ==
  [Particle2D(ox, oy) EXCEPT
     !.velocityX = (r[1] * (PARTICLE_VELOCITY_X_MAX - PARTICLE_VELOCITY_X_MIN) * VScale) \div RandScale
                   + PARTICLE_VELOCITY_X_MIN * VScale,
     !.velocityY = (r[2] * (PARTICLE_VELOCITY_Y_MAX - PARTICLE_VELOCITY_Y_MIN) * VScale) \div RandScale
                   + PARTICLE_VELOCITY_Y_MIN * VScale,
     !.mass = (r[3] * (PARTICLE_MASS_MAX - PARTICLE_MASS_MIN)) \div RandScale + PARTICLE_MASS_MIN,
     !.alpha = (r[4] * Scale) \div RandScale,
     !.burnRate = PARTICLE_BURN_RATE]
  @@ [id |-> id]

\* for (n; n > 0; n--) { ... this.particles.push(particle) }
RECURSIVE SpawnLoop(_, _, _, _, _, _)
SpawnLoop(ps, n, ox, oy, rs, id) ==
  IF n > 0
    THEN SpawnLoop(Append(ps, NewParticle(ox, oy, Head(rs), id)), n - 1, ox, oy, Tail(rs), id + 1)
    ELSE ps

\* ---- ParticleSystem.drawNextFrame

\* the elapsed time without the test for a first call
TimeSinceUnguarded(last, time) == time - last

TimeSinceLastFrame(last, time) == IF last > 0 THEN time - last ELSE 0

FrameMultiple(t) == IF t = 0 THEN 1 ELSE (t * FPS) \div 1000

Margin == PARTICLE_MASS_MAX * 2 * PosScale

ClearRect(dr) ==
  <<dr.xMin - Margin, dr.yMin - Margin,
    dr.xMax - dr.xMin + (Margin * 2), dr.yMax - dr.yMin + (Margin * 2)>>

ResetRegion ==
  [xMin |-> CanvasWidth * PosScale, xMax |-> 0, yMin |-> CanvasHeight * PosScale, yMax |-> 0]

FrictionFactor(m) == Pow(Scale - UNIVERSE_FRICTION, m)

\* the decay factor of a particle that does not burn
BurnFactorNone(p, m) == Scale

BurnFactor(p, m) == Pow(p.burnRate, m)

\* the decay of alpha by burnRate at every call, whatever the time elapsed
AlphaDecayPerCall(p, m) == Mul(p.alpha, p.burnRate)

\* p.alpha * Math.pow(p.burnRate, m), with the division a slip would make
AlphaDecayDivides(p, m) == (p.alpha * Scale) \div BurnFactor(p, m)

\* p.alpha * Math.pow(p.burnRate, m)
AlphaDecay(p, m) == Mul(p.alpha, BurnFactor(p, m))

\* apply velocities and forces
Move(p, m) ==
  [p EXCEPT
     !.x = p.x + p.velocityX * p.mass * m,
     !.y = p.y + p.velocityY * p.mass * m,
     !.velocityX = Mul(p.velocityX, FrictionFactor(m)),
     !.velocityY = Mul(p.velocityY, FrictionFactor(m)) + UNIVERSE_GRAVITY * m,
     !.alpha = AlphaDecay(p, m)]

AlphaMin == Scale \div 10

\* the removal test with the threshold of alpha written 0.01
RemoveFaint(p) ==
  \/ p.alpha <= Scale \div 100
  \/ p.y < 0
  \/ p.x < 0
  \/ p.y > CanvasHeight * PosScale
  \/ p.x > CanvasWidth * PosScale

\* the removal test without the right and bottom edges
RemoveTopLeftOnly(p) ==
  \/ p.alpha <= AlphaMin
  \/ p.y < 0
  \/ p.x < 0

\* remove particles out of screen or alpha close to zero
Remove(p) ==
  \/ p.alpha <= AlphaMin
  \/ p.y < 0
  \/ p.x < 0
  \/ p.y > CanvasHeight * PosScale
  \/ p.x > CanvasWidth * PosScale

\* the update of the dirty region without its two minima
GrowMaxOnly(dr, p) ==
  [xMax |-> IF p.x > dr.xMax THEN p.x ELSE dr.xMax,
   xMin |-> dr.xMin,
   yMax |-> IF p.y > dr.yMax THEN p.y ELSE dr.yMax,
   yMin |-> dr.yMin]

\* update dirty region
Grow(dr, p) ==
  [xMax |-> IF p.x > dr.xMax THEN p.x ELSE dr.xMax,
   xMin |-> IF p.x < dr.xMin THEN p.x ELSE dr.xMin,
   yMax |-> IF p.y > dr.yMax THEN p.y ELSE dr.yMax,
   yMin |-> IF p.y < dr.yMin THEN p.y ELSE dr.yMin]

\* this.particles.splice(i, 1), i counted from 0
Splice(ps, i) == SubSeq(ps, 1, i) \o SubSeq(ps, i + 2, Len(ps))

\* the splice without the i-- that follows it
AfterSpliceKeepsIndex(i) == i

\* i-- after the splice
AfterSplice(i) == i - 1

\* for (var i = 0; i < this.particles.length; i++) { ... }
RECURSIVE FrameLoop(_, _, _, _, _, _)
FrameLoop(ps, i, dr, log, m, auto) ==
  IF ~(i < Len(ps))
    THEN [particles |-> ps, dirtyRegion |-> dr, drawn |-> log]
    ELSE LET p == Move(ps[i + 1], m)
             moved == [ps EXCEPT ![i + 1] = p]
             log2 == Append(log, Draw(p))
         IN  IF Remove(p)
               THEN FrameLoop(Splice(moved, i), AfterSplice(i) + 1, dr, log2, m, auto)
               ELSE FrameLoop(moved, i + 1, IF auto THEN Grow(dr, p) ELSE dr, log2, m, auto)

\* the whole of drawNextFrame on a system s, the clock reading time
DrawNextFrame(s, time) ==
  LET t == TimeSinceLastFrame(s.lastFrameTime, time)
      m == FrameMultiple(t)
      dr == IF s.autoClear THEN ResetRegion ELSE s.dirtyRegion
      r == FrameLoop(s.particles, 0, dr, <<>>, m, s.autoClear)
  IN  [particles |-> r.particles, dirtyRegion |-> r.dirtyRegion, lastFrameTime |-> time,
       m |-> m, drawn |-> r.drawn,
       cleared |-> IF s.autoClear THEN ClearRect(s.dirtyRegion) ELSE <<>>]

\* ---- the system as a state machine

System == [particles |-> particles, autoClear |-> autoClear,
           dirtyRegion |-> dirtyRegion, lastFrameTime |-> lastFrameTime]

\* the spawn origins tried: the default one, and one right of the canvas
Origins == { <<(CanvasWidth \div 2) * PosScale, ((CanvasHeight * 8) \div 10) * PosScale>>,
             <<(CanvasWidth + 1) * PosScale, ((CanvasHeight * 8) \div 10) * PosScale>> }

Init ==
  /\ \E o \in Origins : x = o[1] /\ y = o[2]
  /\ particles = <<>>
  /\ autoClear \in BOOLEAN
  /\ dirtyRegion = [xMin |-> 0, xMax |-> 0, yMin |-> 0, yMax |-> 0]
  /\ lastFrameTime = -1
  /\ clock = StartTime
  /\ nextId = 1
  /\ frames = 0
  /\ call = [op |-> "new", n |-> 0, m |-> 0]
  /\ drawn = <<>>
  /\ cleared = <<>>
  /\ twin = [particles |-> <<>>, autoClear |-> autoClear,
             dirtyRegion |-> [xMin |-> 0, xMax |-> 0, yMin |-> 0, yMax |-> 0],
             lastFrameTime |-> -1]
  /\ phase = "both"

\* the results of Math.random() in a call spawn(n): four for each iteration
Draws(n) == [1 .. (IF n > 0 THEN n ELSE 0) -> Rand]

\* spawn(n), the calls of Math.random() returning rs
SpawnWith(n, rs) ==
  /\ (nextId - 1) + (IF n > 0 THEN n ELSE 0) <= MaxSpawned
  /\ particles' = SpawnLoop(particles, n, x, y, rs, nextId)
  /\ nextId' = nextId + (IF n > 0 THEN n ELSE 0)
  /\ call' = [op |-> "spawn", n |-> n, m |-> 0]
  /\ UNCHANGED <<x, y, autoClear, dirtyRegion, lastFrameTime, clock, frames, drawn, cleared>>

Spawn(n) == \E rs \in Draws(n) : SpawnWith(n, rs)

FrameBody(d) ==
  /\ LET r == DrawNextFrame(System, clock + d)
     IN  /\ particles' = r.particles
         /\ dirtyRegion' = r.dirtyRegion
         /\ lastFrameTime' = r.lastFrameTime
         /\ call' = [op |-> "drawNextFrame", n |-> 0, m |-> r.m]
         /\ drawn' = r.drawn
         /\ cleared' = r.cleared
  /\ clock' = clock + d
  /\ frames' = frames + 1
  /\ UNCHANGED <<x, y, autoClear, nextId>>

Frame(d) == frames < MaxFrames /\ FrameBody(d)

Next ==
  \/ \E n \in SpawnCounts : Spawn(n) /\ UNCHANGED <<twin, phase>>
  \/ \E d \in Deltas : Frame(d) /\ UNCHANGED <<twin, phase>>

Spec == Init /\ [][Next]_vars

\* ---- spawn stops, drawNextFrame goes on with positive elapsed time

LiveSpawn(n) == frames < SpawnFrames /\ Spawn(n)

LiveFrame(d) == frames < SpawnFrames + DecayFrames /\ FrameBody(d)

LiveNext ==
  \/ \E n \in SpawnCounts : LiveSpawn(n) /\ UNCHANGED <<twin, phase>>
  \/ \E d \in LiveDeltas : LiveFrame(d) /\ UNCHANGED <<twin, phase>>

\* a step of LiveNext is a call of drawNextFrame exactly when it counts a
\* frame, and one is possible exactly when there are frames left
FrameCalled == frames < SpawnFrames + DecayFrames /\ frames' = frames + 1

\* the driver goes on calling drawNextFrame
LiveSpec == Init /\ [][LiveNext]_vars /\ WF_frames(FrameCalled)

\* ---- one interval in two calls, and in one: the system takes two calls of
\* drawNextFrame where its twin, the same until then, takes only the second

\* drawNextFrame on the twin, the clock reading time
TwinFrame(time) ==
  LET r == DrawNextFrame(twin, time)
  IN  twin' = [twin EXCEPT !.particles = r.particles, !.dirtyRegion = r.dirtyRegion,
                           !.lastFrameTime = r.lastFrameTime]

BothSpawn(n) ==
  /\ phase = "both"
  /\ \E rs \in Draws(n) :
       /\ SpawnWith(n, rs)
       /\ twin' = [twin EXCEPT !.particles = SpawnLoop(twin.particles, n, x, y, rs, nextId)]
  /\ UNCHANGED phase

\* the first call of drawNextFrame, which gives both a lastFrameTime
BothFrame(d) ==
  /\ phase = "both"
  /\ lastFrameTime = -1
  /\ FrameBody(d)
  /\ TwinFrame(clock + d)
  /\ UNCHANGED phase

SplitFirst(d) ==
  /\ phase = "both"
  /\ lastFrameTime > 0
  /\ FrameBody(d)
  /\ phase' = "half"
  /\ UNCHANGED twin

SplitSecond(d) ==
  /\ phase = "half"
  /\ FrameBody(d)
  /\ TwinFrame(clock + d)
  /\ phase' = "done"

SplitNext ==
  \/ \E n \in SpawnCounts : BothSpawn(n)
  \/ \E d \in Deltas : BothFrame(d)
  \/ \E d \in SplitDeltas : SplitFirst(d)
  \/ \E d \in SplitDeltas : SplitSecond(d)

SplitSpec == Init /\ [][SplitNext]_vars

\* ---- what the properties speak of

LiveIds == {particles[i].id : i \in DOMAIN particles}

\* the particles spawned earlier that are no longer in this.particles
Retired == {id \in 1 .. (nextId - 1) : id \notin LiveIds}

\* the step is a call of drawNextFrame
IsFrame == frames' = frames + 1

\* the step is a call of spawn
IsSpawn == call'.op = "spawn" /\ frames' = frames

Max0(n) == IF n > 0 THEN n ELSE 0

OutOfCanvas(px, py) ==
  px < 0 \/ py < 0 \/ px > CanvasWidth * PosScale \/ py > CanvasHeight * PosScale

InRegion(p, dr) == dr.xMin <= p.x /\ p.x <= dr.xMax /\ dr.yMin <= p.y /\ p.y <= dr.yMax

\* the pixels clearRect(c[1], c[2], c[3], c[4]) clears: a negative width or
\* height extends the rectangle to the left of or above its corner
ClearedX(c) == IF c[3] >= 0 THEN <<c[1], c[1] + c[3]>> ELSE <<c[1] + c[3], c[1]>>
ClearedY(c) == IF c[4] >= 0 THEN <<c[2], c[2] + c[4]>> ELSE <<c[2] + c[4], c[2]>>

FillInside(f, c) ==
  /\ c # <<>>
  /\ ClearedX(c)[1] <= f.x /\ f.x + f.size <= ClearedX(c)[2]
  /\ ClearedY(c)[1] <= f.y /\ f.y + f.size <= ClearedY(c)[2]

\* ---- C1
\* C1: a call spawn(n) lengthens this.particles by exactly n when n >= 0 and
\* by nothing when n < 0, leaves the particles already there as they were,
\* and puts every particle it appends at the spawn origin (this.x, this.y)
\* of the moment of the call.
C1_SpawnAppendsAtOrigin ==
  [][IsSpawn =>
       /\ Len(particles') = Len(particles) + Max0(call'.n)
       /\ SubSeq(particles', 1, Len(particles)) = particles
       /\ \A i \in (Len(particles) + 1) .. Len(particles') :
            particles'[i].x = x /\ particles'[i].y = y]_vars

C1_Witness ==
  /\ call.op = "spawn" /\ call.n = 2
  /\ frames > 0
  /\ Len(particles) = 2
  /\ \A i \in DOMAIN particles : particles[i].x = x /\ particles[i].y = y

\* ---- C2
\* C2: a particle whose alpha is at most 0.1 when drawNextFrame is called is
\* not in this.particles when the call returns, and a call never draws a
\* particle that an earlier call removed.
C2_FaintRemovedNeverRedrawn ==
  [][IsFrame =>
       /\ \A i \in DOMAIN particles :
            particles[i].alpha <= AlphaMin => particles[i].id \notin LiveIds'
       /\ \A k \in DOMAIN drawn' : drawn'[k].id \notin Retired]_vars

C2_Witness ==
  /\ call.op = "drawNextFrame"
  /\ frames >= 2
  /\ particles # <<>>
  /\ \E k \in DOMAIN drawn :
       /\ drawn[k].alpha <= AlphaMin
       /\ ~OutOfCanvas(drawn[k].x, drawn[k].y)
       /\ drawn[k].id \in Retired

\* ---- C3
\* C3 as stated: a particle that is outside the canvas when drawNextFrame is
\* called is removed by that call.
C3_OutsideBeforeIsRemoved ==
  [][IsFrame =>
       \A i \in DOMAIN particles :
         OutOfCanvas(particles[i].x, particles[i].y) => particles[i].id \notin LiveIds']_vars

\* C3 amended: a particle whose position after the integration step of the
\* call, x + velocityX * mass * m / 1000 and the same for y, is outside the
\* canvas is removed by that call, whatever its alpha.
C3_OutsideAfterMoveIsRemoved ==
  [][IsFrame =>
       \A i \in DOMAIN particles :
         LET p == particles[i]
         IN  OutOfCanvas(p.x + p.velocityX * p.mass * call'.m,
                         p.y + p.velocityY * p.mass * call'.m)
               => p.id \notin LiveIds']_vars

C3_Witness ==
  /\ call.op = "drawNextFrame"
  /\ \E k \in DOMAIN drawn :
       /\ drawn[k].x > CanvasWidth * PosScale
       /\ drawn[k].alpha > AlphaMin
       /\ drawn[k].id \in Retired

\* ---- C4
\* C4: with autoClear set, the rectangle that drawNextFrame clears contains
\* every rectangle [x, x + mass) x [y, y + mass) filled since the clear
\* before it, that is by the call before.
C4_ClearCoversFills ==
  [][IsFrame /\ autoClear =>
       \A k \in DOMAIN drawn : FillInside(drawn[k], cleared')]_vars

\* ---- C5
\* C5: in a drawNextFrame call with positive elapsed time the alpha of every
\* particle after its update is at most its alpha before the call.
C5_AlphaNeverGrows ==
  [][IsFrame /\ clock' > clock =>
       \A i \in DOMAIN particles : \A k \in DOMAIN drawn' :
         drawn'[k].id = particles[i].id => drawn'[k].alpha <= particles[i].alpha]_vars

C5_Witness ==
  /\ call.op = "drawNextFrame" /\ call.m = 3
  /\ \E i \in DOMAIN particles :
       particles[i].alpha < (9 * Scale) \div 10 /\ particles[i].alpha > AlphaMin

\* ---- C6
Abs(v) == IF v >= 0 THEN v ELSE -v

\* what the rounding of the products may amount to
AlphaTol == Scale \div 1000
VelocityTol == VScale \div 10
PositionTol == PosScale \div 100

\* the pairs of a particle and its copy in the twin, both still live
Pairs ==
  {<<particles[i], twin.particles[j]>> : i \in DOMAIN particles, j \in DOMAIN twin.particles}

SamePairs == {pq \in Pairs : pq[1].id = pq[2].id}

\* C6 as stated: after two calls with elapsed times t1 and t2, a particle
\* that is still live has the position, velocity and alpha it has after one
\* call with elapsed time t1 + t2.
C6_SplitSameState ==
  phase = "done" =>
    \A pq \in SamePairs :
      /\ Abs(pq[1].alpha - pq[2].alpha) <= AlphaTol
      /\ Abs(pq[1].velocityX - pq[2].velocityX) <= VelocityTol
      /\ Abs(pq[1].velocityY - pq[2].velocityY) <= VelocityTol
      /\ Abs(pq[1].x - pq[2].x) <= PositionTol
      /\ Abs(pq[1].y - pq[2].y) <= PositionTol

\* C6 amended: after two calls with elapsed times t1 and t2, a particle that
\* is still live has, up to rounding, the velocityX and the alpha it has
\* after one call with elapsed time t1 + t2.
C6_SplitSameAlphaVelocityX ==
  phase = "done" =>
    \A pq \in SamePairs :
      /\ Abs(pq[1].alpha - pq[2].alpha) <= AlphaTol
      /\ Abs(pq[1].velocityX - pq[2].velocityX) <= VelocityTol

C6_Witness ==
  /\ phase = "done"
  /\ \E pq \in SamePairs :
       /\ pq[1].alpha > AlphaMin
       /\ pq[1].velocityX # 0
       /\ pq[1].x # pq[2].x

\* ---- C7
\* C7: the frame multiple m of a drawNextFrame call is 1 when lastFrameTime
\* is still -1 or when no time has elapsed since the call before, and is
\* otherwise the elapsed milliseconds divided by 1000 / FPS; the call stores
\* the clock reading in lastFrameTime.
C7_FrameMultiple ==
  [][IsFrame =>
       /\ lastFrameTime' = clock'
       /\ IF lastFrameTime = -1 \/ clock' - lastFrameTime = 0
            THEN call'.m = 1
            ELSE call'.m * 1000 = (clock' - lastFrameTime) * FPS]_vars

C7_Witness ==
  /\ call.op = "drawNextFrame" /\ call.m = 3
  /\ frames >= 2
  /\ lastFrameTime = clock /\ clock > StartTime

\* ---- C8
\* C8: a drawNextFrame call draws the particles that were in this.particles
\* when it began, each once and in their order; every particle that stays
\* has moved by one integration step, and the particles that stay are in the
\* order they had.
C8_EachParticleOnceInOrder ==
  [][IsFrame =>
       /\ Len(drawn') = Len(particles)
       /\ \A i \in DOMAIN particles : drawn'[i].id = particles[i].id
       /\ \A j \in DOMAIN particles' : \E i \in DOMAIN particles :
            /\ particles[i].id = particles'[j].id
            /\ particles'[j].x = particles[i].x + particles[i].velocityX * particles[i].mass * call'.m
            /\ particles'[j].y = particles[i].y + particles[i].velocityY * particles[i].mass * call'.m
       /\ \A j, k \in DOMAIN particles' :
            j < k => \E a, b \in DOMAIN particles :
                       /\ a < b
                       /\ particles[a].id = particles'[j].id
                       /\ particles[b].id = particles'[k].id]_vars

C8_Witness ==
  /\ call.op = "drawNextFrame"
  /\ Len(drawn) = 2 /\ Len(particles) = 1
  /\ drawn[1].id \in Retired
  /\ drawn[2].id = particles[1].id

\* ---- C9
\* C9 as stated: with autoClear set, in every state between two operations
\* every particle of this.particles lies within the dirty region.
C9_LiveAlwaysInRegion ==
  autoClear => \A i \in DOMAIN particles : InRegion(particles[i], dirtyRegion)

\* C9 amended: with autoClear set, when a drawNextFrame call returns every
\* particle of this.particles lies within the dirty region.
C9_LiveInRegionAfterFrame ==
  autoClear /\ call.op = "drawNextFrame" =>
    \A i \in DOMAIN particles : InRegion(particles[i], dirtyRegion)

C9_Witness ==
  /\ autoClear /\ call.op = "drawNextFrame"
  /\ Len(particles) = 2
  /\ dirtyRegion.xMin < dirtyRegion.xMax
  /\ \A i \in DOMAIN particles : InRegion(particles[i], dirtyRegion)

\* ---- C10
\* C10: once spawn is no longer called and drawNextFrame goes on being called
\* with positive elapsed time, this.particles becomes empty and stays empty.
C10_EventuallyEmpty == <>[](particles = <<>>)

C10_Witness ==
  /\ call.op = "drawNextFrame" /\ call.m > 1
  /\ frames > SpawnFrames
  /\ particles = <<>>
  /\ \E k \in DOMAIN drawn :
       /\ drawn[k].alpha <= AlphaMin
       /\ ~OutOfCanvas(drawn[k].x, drawn[k].y)
       /\ drawn[k].id \in Retired

====
